---- MODULE Spec2Model ----
(***************************************************************************)
(* Model of etl_project_gdp_chatedit.py: one run of the Country-GDP ETL    *)
(* script (log, extract, transform, CSV, database, query, error handler,   *)
(* finally).                                                                *)
(*                                                                          *)
(* Text is a sequence of one-character strings.  Two characters outside    *)
(* ASCII are written as tokens: "SUP2" is U+00B2 (superscript two, for     *)
(* which str.isdigit() is true and the regex class \d is false), "AR3" is  *)
(* U+0663 (Arabic-Indic three, a Unicode decimal: str.isdigit() and \d are *)
(* true, but it is not one of 0-9), "EMDASH" is U+2014.                     *)
(*                                                                          *)
(* A float with two decimals is held as its number of hundredths (1.23 is  *)
(* 123); a parsed number is [num, dec], the value num / 10^dec.            *)
(***************************************************************************)
EXTENDS Integers, Sequences, FiniteSets

VARIABLES pc, rows, i, edf, df, df_bound, df_out, log, stderr, stdout,
          csv, db, conn, exc, uncaught

vars == <<pc, rows, i, edf, df, df_bound, df_out, log, stderr, stdout,
          csv, db, conn, exc, uncaught>>

----------------------------------------------------------------------------
(* Bounds of the model *)

MaxRows == 3
MaxChars == 3

----------------------------------------------------------------------------
(* Characters *)

AsciiDigits == {"0", "1", "2", "3", "4", "5", "6", "7", "8", "9"}

Alphabet == {"1", "5", "-", ".", "SUP2", "AR3"}

DigitVal(ch) ==
    CASE ch = "0" -> 0 [] ch = "1" -> 1 [] ch = "2" -> 2 [] ch = "3" -> 3
      [] ch = "4" -> 4 [] ch = "5" -> 5 [] ch = "6" -> 6 [] ch = "7" -> 7
      [] ch = "8" -> 8 [] ch = "9" -> 9

\* str.isdigit() of one character
isdigit(ch) == ch \in AsciiDigits \cup {"SUP2", "AR3"}

\* the regex class [\d.] on str patterns: Unicode decimals and the period
re_digit_or_dot(ch) == ch \in AsciiDigits \cup {"AR3", "."}

RECURSIVE Pow10(_)
Pow10(n) == IF n = 0 THEN 1 ELSE 10 * Pow10(n - 1)

----------------------------------------------------------------------------
(* The page: the rows of the third tbody *)

Texts(n) == UNION {[1..k -> Alphabet] : k \in 0..n}

\* cell texts quoted in the source (line 48) and in the specification
SampleTexts ==
    { <<"1", ",", "2", "3", "4">>,
      <<"EMDASH">>,
      <<"1", ",", "2", "3", "4", "[", "1", "]">>,
      <<"2", "5", ",", "6", "7", "8", "[", "5", "]">> }

\* a tr: the number of td cells, whether the first cell holds an <a>, and
\* the text of the third cell
HeaderRow == [ncells |-> 0, link |-> FALSE, gdp |-> <<>>]
NoLinkRow == [ncells |-> 3, link |-> FALSE, gdp |-> <<"1">>]
ShortRows == { [ncells |-> n, link |-> TRUE, gdp |-> <<>>] : n \in 1..2 }
DataRow(t) == [ncells |-> 3, link |-> TRUE, gdp |-> t]

RowsUpTo(c) == {HeaderRow, NoLinkRow} \cup ShortRows \cup {DataRow(t) : t \in Texts(c)}

\* the single-row and two-row bodies built from the quoted texts
SampleBodies ==
    { <<DataRow(t)>> : t \in SampleTexts } \cup
    { <<DataRow(t), DataRow(u)>> : t \in SampleTexts, u \in SampleTexts }

\* lines 40-42: rows' is a body of at most k more rows after `prefix`, the
\* GDP cells of which hold at most c more characters
RECURSIVE FindRows(_, _, _)
FindRows(prefix, k, c) ==
    \/ rows' = prefix
    \/ /\ k > 0
       /\ \E r \in RowsUpTo(c) : FindRows(Append(prefix, r), k - 1, c - Len(r.gdp))

----------------------------------------------------------------------------
(* log_progress *)

Line(inp) == [timestamp |-> "%Y-%b-%d-%H:%M:%S", sep |-> " : ", inp |-> inp]

log_progress(inp) == log' = Append(log, Line(inp))

NoExc == [at |-> "none", msg |-> ""]

\* the statement after each log_progress call of the try block, and its message
LogSite ==
    [ log_start     |-> [inp |-> <<"Preliminaries complete. Initiating ETL process.">>,
                         next |-> "extract"],
      log_extract   |-> [inp |-> <<"Data extraction complete. Initiating transformation process.">>,
                         next |-> "transform"],
      log_transform |-> [inp |-> <<"Data transformation complete. Initiating loading process.">>,
                         next |-> "csv"],
      log_csv       |-> [inp |-> <<"Data saved to CSV file.">>,
                         next |-> "connect"],
      log_connect   |-> [inp |-> <<"SQL connection initiated.">>,
                         next |-> "load_db"],
      log_db        |-> [inp |-> <<"Data loaded to database as table. Running the query.">>,
                         next |-> "query"],
      log_complete  |-> [inp |-> <<"Process complete.">>,
                         next |-> "finally"] ]

\* an exception raised at position p of the try block reaches the handler;
\* the locals of the function it left are gone
Raise(p, msg) ==
    /\ pc' = "except"
    /\ exc' = [at |-> p, msg |-> msg]
    /\ rows' = <<>>
    /\ i' = 0
    /\ edf' = <<>>
    /\ df_out' = <<>>

----------------------------------------------------------------------------
(* extract *)

\* variant: the guard also asks for three cells
SelectedThreeCells(row) == row.ncells >= 3 /\ row.link

\* line 46
Selected(row) == row.ncells # 0 /\ row.link

\* line 50
KeepRow(gdp_raw) == \E k \in 1..Len(gdp_raw) : isdigit(gdp_raw[k])

\* variant: the new row is put before the frame
ConcatFront(frame, country, gdp_raw) ==
    LET joined == <<[idx |-> 0, Country |-> country, GDP_USD_millions |-> gdp_raw]>> \o frame
    IN  [k \in 1..Len(joined) |-> [joined[k] EXCEPT !.idx = k - 1]]

\* lines 51-54: pd.concat(..., ignore_index=True)
Concat(frame, country, gdp_raw) ==
    Append(frame, [idx |-> Len(frame), Country |-> country, GDP_USD_millions |-> gdp_raw])

----------------------------------------------------------------------------
(* transform *)

\* line 68
Clean(s) == SelectSeq(s, re_digit_or_dot)

NaN == [nan |-> TRUE, num |-> 0, dec |-> 0]

RECURSIVE DigitsValue(_)
DigitsValue(s) ==
    IF s = <<>> THEN 0
    ELSE 10 * DigitsValue(SubSeq(s, 1, Len(s) - 1)) + DigitVal(s[Len(s)])

IsAsciiDigit(ch) == ch \in AsciiDigits
IsDot(ch) == ch = "."

\* the parser behind pd.to_numeric: ASCII digits with at most one period and
\* at least one digit; a Unicode decimal the pattern left makes the text
\* unparseable
Parseable(s) ==
    /\ \A k \in 1..Len(s) : s[k] \in AsciiDigits \cup {"."}
    /\ Len(SelectSeq(s, IsDot)) <= 1
    /\ Len(SelectSeq(s, IsAsciiDigit)) >= 1

DotPos(s) == CHOOSE k \in 1..Len(s) : s[k] = "."

Parse(s) ==
    [ nan |-> FALSE,
      num |-> DigitsValue(SelectSeq(s, IsAsciiDigit)),
      dec |-> IF \E k \in 1..Len(s) : s[k] = "." THEN Len(s) - DotPos(s) ELSE 0 ]

\* variant: errors='raise'
ErrorsModeRaise == "raise"

\* line 71, errors='coerce'
ErrorsMode == "coerce"

\* variant: unparseable text becomes 0 instead of NaN
to_numeric_zero(s) == IF Parseable(s) THEN Parse(s) ELSE [nan |-> FALSE, num |-> 0, dec |-> 0]

\* line 71
to_numeric(s) == IF Parseable(s) THEN Parse(s) ELSE NaN

\* line 73: (v / 1000).round(2), in hundredths.  Off a tie the result is the
\* nearest hundredth; on an exact decimal tie the binary product x * 100 may
\* fall on either side of .5, so either neighbour is possible.
Round2(v) ==
    LET unit == Pow10(v.dec + 1)
        q == v.num \div unit
        r == v.num % unit
        half == 5 * Pow10(v.dec)
    IN  IF r < half THEN {q} ELSE IF r > half THEN {q + 1} ELSE {q, q + 1}

\* lines 72-78: the frames transform can return for the frame `frame`
RECURSIVE transform(_)
transform(frame) ==
    IF frame = <<>> THEN {<<>>}
    ELSE LET r == frame[Len(frame)]
             v == to_numeric(Clean(r.GDP_USD_millions))
             rest == transform(SubSeq(frame, 1, Len(frame) - 1))
         IN  IF v.nan THEN rest
             ELSE { Append(o, [idx |-> r.idx, Country |-> r.Country, GDP_USD_billions |-> h])
                    : o \in rest, h \in Round2(v) }

----------------------------------------------------------------------------
(* Sinks *)

Previous == [by |-> "earlier run", exists |-> TRUE, header |-> <<>>, body |-> <<>>]

Values(frame) == [k \in 1..Len(frame) |-> <<frame[k].Country, frame[k].GDP_USD_billions>>]

\* to_csv(index=False) / to_sql(if_exists='replace', index=False)
Written(frame) ==
    [by |-> "this run", exists |-> TRUE,
     header |-> <<"Country", "GDP_USD_billions">>, body |-> Values(frame)]

Truncated == [by |-> "this run", exists |-> TRUE, header |-> <<>>, body |-> <<>>]
Dropped == [by |-> "this run", exists |-> FALSE, header |-> <<>>, body |-> <<>>]

AtLeast100(row) == row[2] >= 10000

----------------------------------------------------------------------------
(* The run *)

\* a frame of at most k more rows after `prefix`, holding at most c more characters
RECURSIVE FrameIs(_, _, _)
FrameIs(prefix, k, c) ==
    \/ df = prefix
    \/ /\ k > 0
       /\ \E t \in Texts(c) :
            FrameIs(Concat(prefix, Len(prefix) + 1, t), k - 1, c - Len(t))

SampleFrames ==
    { Concat(<<>>, 1, t) : t \in SampleTexts } \cup
    { Concat(Concat(<<>>, 1, t), 2, u) : t \in SampleTexts, u \in SampleTexts }

Init ==
    /\ pc = "log_start"
    /\ rows = <<>>
    /\ i = 0
    /\ edf = <<>>
    /\ df = <<>>
    /\ df_bound = "unbound"
    /\ df_out = <<>>
    /\ log = <<>>
    /\ stderr = <<>>
    /\ stdout = <<>>
    /\ csv = Previous
    /\ db = Previous
    /\ conn = "unbound"
    /\ exc = NoExc
    /\ uncaught = "none"

\* lines 103, 106, 109, 112, 115, 118, 123
LogStage ==
    /\ pc \in DOMAIN LogSite
    /\ log_progress(LogSite[pc].inp)
    /\ pc' = LogSite[pc].next
    /\ UNCHANGED <<rows, i, edf, df, df_bound, df_out, stderr, stdout, csv, db, conn, exc, uncaught>>

\* open() or write() of line 26-27 raises
LogStageFail ==
    /\ pc \in DOMAIN LogSite
    /\ Raise(pc, "[Errno 2] No such file or directory")
    /\ UNCHANGED <<df, df_bound, log, stderr, stdout, csv, db, conn, uncaught>>

\* line 35 raises
FetchFail ==
    /\ pc = "extract"
    /\ Raise(pc, "connection error")
    /\ UNCHANGED <<df, df_bound, log, stderr, stdout, csv, db, conn, uncaught>>

\* line 42 raises: the page has fewer than three tbody elements
NoThirdTable ==
    /\ pc = "extract"
    /\ Raise(pc, "list index out of range")
    /\ UNCHANGED <<df, df_bound, log, stderr, stdout, csv, db, conn, uncaught>>

\* lines 35-42
FetchParse ==
    /\ pc = "extract"
    /\ \/ FindRows(<<>>, MaxRows, MaxChars)
       \/ \E b \in SampleBodies : rows' = b
    /\ i' = 1
    /\ edf' = <<>>
    /\ pc' = "extract_loop"
    /\ UNCHANGED <<df_out, exc>>
    /\ UNCHANGED <<df, df_bound, log, stderr, stdout, csv, db, conn, uncaught>>

\* lines 44-54, one iteration
ExtractRow ==
    /\ pc = "extract_loop"
    /\ i <= Len(rows)
    /\ LET row == rows[i] IN
         IF Selected(row)
         THEN IF row.ncells < 3
              THEN Raise(pc, "list index out of range")
              ELSE /\ edf' = IF KeepRow(row.gdp) THEN Concat(edf, i, row.gdp) ELSE edf
                   /\ i' = i + 1
                   /\ UNCHANGED <<pc, rows, df_out, exc>>
         ELSE /\ i' = i + 1
              /\ UNCHANGED <<pc, rows, edf, df_out, exc>>
    /\ UNCHANGED <<df, df_bound, log, stderr, stdout, csv, db, conn, uncaught>>

\* line 55 and the assignment of line 105
ExtractReturn ==
    /\ pc = "extract_loop"
    /\ i > Len(rows)
    /\ df' = edf
    /\ df_bound' = "raw"
    /\ rows' = <<>>
    /\ i' = 0
    /\ edf' = <<>>
    /\ pc' = "log_extract"
    /\ UNCHANGED <<df_out, log, stderr, stdout, csv, db, conn, exc, uncaught>>

\* lines 65-78
Transform ==
    /\ pc = "transform"
    /\ IF ErrorsMode = "raise" /\ \E k \in 1..Len(df) : ~Parseable(Clean(df[k].GDP_USD_millions))
       THEN /\ Raise(pc, "Unable to parse string")
            /\ UNCHANGED <<df, df_bound>>
       ELSE /\ \E o \in transform(df) : df_out' = o
            /\ pc' = "transform_ret"
            /\ UNCHANGED <<rows, i, edf, df, df_bound, exc>>
    /\ UNCHANGED <<log, stderr, stdout, csv, db, conn, uncaught>>

\* line 80 and the assignment of line 108
TransformReturn ==
    /\ pc = "transform_ret"
    /\ df' = df_out
    /\ df_bound' = "clean"
    /\ df_out' = <<>>
    /\ pc' = "log_transform"
    /\ UNCHANGED <<rows, i, edf, log, stderr, stdout, csv, db, conn, exc, uncaught>>

\* variant: the CSV file is not written
LoadToCsvSkipped ==
    /\ pc = "csv"
    /\ pc' = "log_csv"
    /\ UNCHANGED <<rows, i, edf, df, df_bound, df_out, log, stderr, stdout, csv, db, conn, exc, uncaught>>

\* line 111
LoadToCsv ==
    /\ pc = "csv"
    /\ csv' = Written(df)
    /\ pc' = "log_csv"
    /\ UNCHANGED <<rows, i, edf, df, df_bound, df_out, log, stderr, stdout, db, conn, exc, uncaught>>

\* line 111 raises: the file was not opened, or was opened and cut short
LoadToCsvFail ==
    /\ pc = "csv"
    /\ csv' \in {csv, Truncated}
    /\ Raise(pc, "cannot write csv")
    /\ UNCHANGED <<df, df_bound, log, stderr, stdout, db, conn, uncaught>>

\* line 114
Connect ==
    /\ pc = "connect"
    /\ conn' = "open"
    /\ pc' = "log_connect"
    /\ UNCHANGED <<rows, i, edf, df, df_bound, df_out, log, stderr, stdout, csv, db, exc, uncaught>>

\* line 114 raises; conn stays unbound
ConnectFail ==
    /\ pc = "connect"
    /\ Raise(pc, "unable to open database file")
    /\ UNCHANGED <<df, df_bound, log, stderr, stdout, csv, db, conn, uncaught>>

\* line 117
LoadToDb ==
    /\ pc = "load_db"
    /\ db' = Written(df)
    /\ pc' = "log_db"
    /\ UNCHANGED <<rows, i, edf, df, df_bound, df_out, log, stderr, stdout, csv, conn, exc, uncaught>>

\* line 117 raises: before the old table was dropped, or after
LoadToDbFail ==
    /\ pc = "load_db"
    /\ db' \in {db, Dropped}
    /\ Raise(pc, "database is locked")
    /\ UNCHANGED <<df, df_bound, log, stderr, stdout, csv, conn, uncaught>>

\* lines 120-121
RunQuery ==
    /\ pc = "query"
    /\ stdout' = stdout \o << <<"SELECT * FROM Countries_by_GDP WHERE GDP_USD_billions >= 100">>,
                              SelectSeq(db.body, AtLeast100) >>
    /\ pc' = "log_complete"
    /\ UNCHANGED <<rows, i, edf, df, df_bound, df_out, log, stderr, csv, db, conn, exc, uncaught>>

\* line 121 raises in read_sql, after the statement was printed
RunQueryFail ==
    /\ pc = "query"
    /\ stdout' = Append(stdout, <<"SELECT * FROM Countries_by_GDP WHERE GDP_USD_billions >= 100">>)
    /\ Raise(pc, "Execution failed on sql")
    /\ UNCHANGED <<df, df_bound, log, stderr, csv, db, conn, uncaught>>

\* variant: the handler does not log
HandlerSilent ==
    /\ pc = "except"
    /\ stderr' = Append(stderr, <<"ERROR: ", exc.msg>>)
    /\ pc' = "finally"
    /\ UNCHANGED <<rows, i, edf, df, df_bound, df_out, log, stdout, csv, db, conn, exc, uncaught>>

\* lines 124-126
Handler ==
    /\ pc = "except"
    /\ log_progress(<<"ERROR: ", exc.msg>>)
    /\ stderr' = Append(stderr, <<"ERROR: ", exc.msg>>)
    /\ pc' = "finally"
    /\ UNCHANGED <<rows, i, edf, df, df_bound, df_out, stdout, csv, db, conn, exc, uncaught>>

\* line 125 raises inside the handler: nothing catches it, the finally
\* clause runs and the exception leaves the script
HandlerLogFail ==
    /\ pc = "except"
    /\ uncaught' = "OSError"
    /\ pc' = "finally"
    /\ UNCHANGED <<rows, i, edf, df, df_bound, df_out, log, stderr, stdout, csv, db, conn, exc>>

\* variant: no finally clause closes the connection
FinallyNoClose ==
    /\ pc = "finally"
    /\ stderr' = IF uncaught = "none" THEN stderr ELSE Append(stderr, <<"Traceback", uncaught>>)
    /\ pc' = "done"
    /\ UNCHANGED <<rows, i, edf, df, df_bound, df_out, log, stdout, csv, db, conn, exc, uncaught>>

\* lines 127-131: conn.close(); on an unbound conn the NameError is caught
\* by `except Exception: pass`.  After it an exception that left the
\* handler ends the script with a traceback.
Finally ==
    /\ pc = "finally"
    /\ conn' = IF conn = "unbound" THEN "unbound" ELSE "closed"
    /\ stderr' = IF uncaught = "none" THEN stderr ELSE Append(stderr, <<"Traceback", uncaught>>)
    /\ pc' = "done"
    /\ UNCHANGED <<rows, i, edf, df, df_bound, df_out, log, stdout, csv, db, exc, uncaught>>

Next ==
    \/ LogStage
    \/ LogStageFail
    \/ FetchFail
    \/ NoThirdTable
    \/ FetchParse
    \/ ExtractRow
    \/ ExtractReturn
    \/ Transform
    \/ TransformReturn
    \/ LoadToCsv
    \/ LoadToCsvFail
    \/ Connect
    \/ ConnectFail
    \/ LoadToDb
    \/ LoadToDbFail
    \/ RunQuery
    \/ RunQueryFail
    \/ Handler
    \/ HandlerLogFail
    \/ Finally

Spec == Init /\ [][Next]_vars

\* transform called on any frame of raw rows
InitTransform ==
    /\ pc = "transform"
    /\ \/ FrameIs(<<>>, MaxRows, MaxChars)
       \/ df \in SampleFrames
    /\ df_bound = "raw"
    /\ rows = <<>>
    /\ i = 0
    /\ edf = <<>>
    /\ df_out = <<>>
    /\ log = <<>>
    /\ stderr = <<>>
    /\ stdout = <<>>
    /\ csv = Previous
    /\ db = Previous
    /\ conn = "unbound"
    /\ exc = NoExc
    /\ uncaught = "none"

NextTransform ==
    \/ Transform
    \/ TransformReturn

SpecTransform == InitTransform /\ [][NextTransform]_vars

----------------------------------------------------------------------------
(* Properties *)

Abs(n) == IF n < 0 THEN -n ELSE n

\* the row of `frame` with index label `label`
RowOf(frame, label) == frame[CHOOSE k \in 1..Len(frame) : frame[k].idx = label]

CountOf(frame, label) == Cardinality({k \in 1..Len(frame) : frame[k].idx = label})

HasDecimalDigit(s) == \E k \in 1..Len(s) : s[k] \in AsciiDigits

\* s without its footnote markers, the bracketed groups "[...]"
RECURSIVE StripFootnotes(_)
StripFootnotes(s) ==
    IF s = <<>> THEN <<>>
    ELSE IF s[1] = "[" /\ \E k \in 2..Len(s) : s[k] = "]"
         THEN LET close == CHOOSE k \in 2..Len(s) :
                              s[k] = "]" /\ \A j \in 2..(k - 1) : s[j] # "]"
              IN  StripFootnotes(SubSeq(s, close + 1, Len(s)))
         ELSE <<s[1]>> \o StripFootnotes(Tail(s))

\* the millions value written in a cell: what is left of the text without
\* footnote markers, separators and other punctuation, read as a number
WrittenMillions(s) == to_numeric(Clean(StripFootnotes(s)))

\* h hundredths is v / 1000 rounded to 2 decimals (either way on a tie)
IsRounded(h, v) ==
    LET unit == Pow10(v.dec + 1) IN 2 * Abs(h * unit - v.num) <= unit

\* C1: every row transform keeps holds the millions value written in its
\* gdp_raw (separators and footnote markers apart) divided by 1000 and
\* rounded to 2 decimals; "1,234" gives 1.23 and "25,678[5]" gives 25.68.
C1_BillionsOfWrittenMillions ==
    pc = "transform_ret" =>
        \A k \in 1..Len(df_out) :
            LET raw == RowOf(df, df_out[k].idx).GDP_USD_millions
                h == df_out[k].GDP_USD_billions
                v == WrittenMillions(raw)
            IN  /\ ~v.nan
                /\ IsRounded(h, v)
                /\ raw = <<"1", ",", "2", "3", "4">> => h = 123
                /\ raw = <<"2", "5", ",", "6", "7", "8", "[", "5", "]">> => h = 2568

\* what stays of a cell text when every character that is not a digit (as
\* the pattern reads one) or a period is removed
C2_Kept(ch) == ch \in AsciiDigits \cup {"AR3", "."}

\* t is a number the parser reads: decimal digits 0-9 around at most one period
C2_IsNumber(t) ==
    /\ t # <<>>
    /\ \A k \in 1..Len(t) : t[k] \in AsciiDigits \cup {"."}
    /\ Cardinality({k \in 1..Len(t) : t[k] = "."}) <= 1
    /\ \E k \in 1..Len(t) : t[k] \in AsciiDigits

\* C2: transform never raises; a RawRow whose gdp_raw, without the characters
\* that are neither digit nor period, is empty or no number has no entry in
\* the output, and every other RawRow has exactly one.
C2_TransformDropsUnconvertible ==
    /\ exc.at # "transform"
    /\ pc = "transform_ret" =>
          /\ \A k \in 1..Len(df) :
                CountOf(df_out, df[k].idx) =
                    IF C2_IsNumber(SelectSeq(df[k].GDP_USD_millions, C2_Kept)) THEN 1 ELSE 0
          /\ \A k \in 1..Len(df_out) : CountOf(df, df_out[k].idx) = 1

\* transform has returned one row of a frame holding "." and "1"
C2_Witness ==
    /\ pc = "transform_ret"
    /\ \E j, k \in 1..Len(df) :
          /\ df[j].GDP_USD_millions = <<".">>
          /\ df[k].GDP_USD_millions = <<"1">>
    /\ Len(df_out) = 1

\* C3: a row is in the extracted table only if its GDP text holds a decimal
\* digit 0-9.
C3_ExtractedGdpHasDecimalDigit ==
    /\ \A k \in 1..Len(edf) : HasDecimalDigit(edf[k].GDP_USD_millions)
    /\ df_bound = "raw" => \A k \in 1..Len(df) : HasDecimalDigit(df[k].GDP_USD_millions)

\* C4: every CleanRow's gdp_usd_billions is a non-negative number and its
\* RawRow's gdp_raw held at least one digit.
C4_CleanRowsNonNegativeFromDigits ==
    pc = "transform_ret" =>
        \A k \in 1..Len(df_out) :
            /\ df_out[k].GDP_USD_billions \in Nat
            /\ CountOf(df, df_out[k].idx) = 1
            /\ HasDecimalDigit(RowOf(df, df_out[k].idx).GDP_USD_millions)

\* transform has dropped "-" and kept "-5" as a non-negative value
C4_Witness ==
    /\ pc = "transform_ret"
    /\ \E j, k \in 1..Len(df) :
          /\ df[j].GDP_USD_millions = <<"-">>
          /\ df[k].GDP_USD_millions = <<"-", "5">>
          /\ \E n \in 1..Len(df_out) :
                df_out[n].idx = df[k].idx /\ df_out[n].GDP_USD_billions >= 0
    /\ Len(df_out) = 1

LogFailed == exc.at \in DOMAIN LogSite

HasErrorEntry == \E k \in 1..Len(log) : log[k].inp[1] = "ERROR: "

\* the positions of the try block at which the connection is not yet bound
BeforeConnect ==
    {"log_start", "extract", "extract_loop", "log_extract", "transform",
     "log_transform", "csv", "log_csv", "connect"}

C6_LoggerNeverAborts ==
    /\ ~LogFailed
    /\ uncaught = "none"

StageOrder ==
    <<"log_start", "log_extract", "log_transform", "log_csv", "log_connect",
      "log_db", "log_complete">>

\* the number of completion entries written when control is at position p
EntriesBefore(p) ==
    CASE p = "log_start" -> 0
      [] p \in {"extract", "extract_loop", "log_extract"} -> 1
      [] p \in {"transform", "transform_ret", "log_transform"} -> 2
      [] p \in {"csv", "log_csv"} -> 3
      [] p \in {"connect", "log_connect"} -> 4
      [] p \in {"load_db", "log_db"} -> 5
      [] p \in {"query", "log_complete"} -> 6
      [] OTHER -> 7

Completion(n) == [k \in 1..n |-> Line(LogSite[StageOrder[k]].inp)]

\* C7: while no log write has failed, the log is the start entry and the
\* completion entries of the stages done so far, in pipeline order, followed
\* by exactly one "ERROR: <message>" entry once the handler has run; after a
\* stage raised, control is only in the handler and the finally clause.
C7_LogSequence ==
    (~LogFailed /\ uncaught = "none") =>
        /\ exc.at # "none" => pc \in {"except", "finally", "done"}
        /\ log = IF exc.at = "none" THEN Completion(EntriesBefore(pc))
                 ELSE IF pc = "except" THEN Completion(EntriesBefore(exc.at))
                 ELSE Append(Completion(EntriesBefore(exc.at)),
                             Line(<<"ERROR: ", exc.msg>>))

\* the CSV write raised: start, extract and transform entries, then ERROR
C7_Witness ==
    /\ pc = "done"
    /\ exc.at = "csv"
    /\ Len(log) = 4
    /\ log[4].inp[1] = "ERROR: "

\* C8: extract lists the rows it includes in their order on the page, and
\* transform returns its input without the unconvertible rows, the others
\* in their order and once each.
C8_OrderPreserved ==
    /\ pc = "extract_loop" =>
          /\ \A k \in 1..Len(edf) :
                /\ edf[k].idx = k - 1
                /\ edf[k].Country \in 1..(i - 1)
                /\ edf[k].GDP_USD_millions = rows[edf[k].Country].gdp
                /\ k > 1 => edf[k - 1].Country < edf[k].Country
          /\ \A j \in 1..(i - 1) :
                (rows[j].link /\ rows[j].ncells >= 3 /\ HasDecimalDigit(rows[j].gdp))
                    => \E k \in 1..Len(edf) : edf[k].Country = j
    /\ df_bound = "raw" =>
          \A k \in 1..Len(df) :
              /\ df[k].idx = k - 1
              /\ k > 1 => df[k - 1].Country < df[k].Country
    /\ pc = "transform_ret" =>
          /\ \A k \in 1..Len(df_out) :
                /\ CountOf(df, df_out[k].idx) = 1
                /\ RowOf(df, df_out[k].idx).Country = df_out[k].Country
                /\ k > 1 => df_out[k - 1].idx < df_out[k].idx
          /\ \A j \in 1..Len(df) :
                CountOf(df_out, df[j].idx) = 0
                    => ~C2_IsNumber(SelectSeq(df[j].GDP_USD_millions, C2_Kept))

\* of three extracted rows transform has dropped the second
C8_Witness ==
    /\ pc = "transform_ret"
    /\ Len(df) = 3
    /\ Len(df_out) = 2
    /\ df_out[1].Country = 1
    /\ df_out[2].Country = 3

\* C9: when connecting, loading or the query fails, the CSV file holds this
\* run's table; when the run fails at or before the CSV write, the database
\* table is as it was and the connection was never opened; the connection
\* is opened only after the CSV file is written.
C9_CsvBeforeDatabase ==
    /\ exc.at \in {"connect", "load_db", "query"} => csv = Written(df)
    /\ exc.at \in {"log_start", "extract", "extract_loop", "log_extract",
                   "transform", "log_transform", "csv"}
          => (db = Previous /\ conn = "unbound")
    /\ conn # "unbound" => csv = Written(df)

\* the load failed: this run's rows are in the CSV file, the old table in the database
C9_Witness ==
    /\ pc = "done"
    /\ exc.at = "load_db"
    /\ Len(df) > 0
    /\ csv = Written(df)
    /\ db = Previous

\* C10: a row with a link in its first cell and fewer than three cells is
\* never passed over; extract raises an out-of-range error on it, no table
\* is bound and no sink is written, as when the third tbody is missing.
C10_ShortRowFailsExtraction ==
    /\ pc = "extract_loop" =>
          \A j \in 1..(i - 1) : ~(rows[j].link /\ rows[j].ncells \in 1..2)
    /\ exc.at \in {"extract", "extract_loop"} =>
          /\ exc.at = "extract_loop" => exc.msg = "list index out of range"
          /\ df_bound = "unbound"
          /\ edf = <<>>
          /\ csv = Previous
          /\ db = Previous
          /\ conn = "unbound"

\* a run has ended on the out-of-range error of a short row
C10_Witness ==
    /\ pc = "done"
    /\ exc.at = "extract_loop"
    /\ exc.msg = "list index out of range"
    /\ df_bound = "unbound"
    /\ csv = Previous
    /\ log[Len(log)].inp = <<"ERROR: ", "list index out of range">>

====
